---------------------------- MODULE Spec2Model ----------------------------
(***************************************************************************)
(* Model of hello-wasm (src/src/lib.rs): start() builds a shader program,  *)
(* fills two vertex buffers and draws one quad through a WebGL rendering   *)
(* context.  Every call the program makes against the context is one step; *)
(* the context's answers (object creation, compile/link status, info logs, *)
(* attribute and uniform lookups) are chosen nondeterministically.         *)
(***************************************************************************)
EXTENDS Integers, Sequences, FiniteSets, TLC

(* Number of times the host runs start() against the same canvas context. *)
MaxRuns == 2

-----------------------------------------------------------------------------
(* Program constants *)

CANVAS_HEIGHT == 600
CANVAS_WIDTH == 600
NUM_COMPONENTS == 2
STRIDE == 0
OFFSET == 0
VERTEX_COUNT == 4
NORMALIZE == FALSE
VAP_TYPE == "FLOAT"

(* Matrix elements (f32) are kept as fixed-point integers, in thousandths; *)
(* the whole-number f32 literals of buffers and clear values are kept as   *)
(* they are written.                                                      *)
Scale == 1000
Z_NEAR == 100
Z_FAR == 100000
(* 45.0 * PI / 180.0 *)
FIELD_OF_VIEW == 785

vs_source == "vs_source"
fs_source == "fs_source"

positions == <<-1, 1, 1, 1, -1, -1, 1, -1>>
colors == <<1, 1, 1, 1,  1, 0, 0, 1,  0, 1, 0, 1,  0, 0, 1, 1>>

-----------------------------------------------------------------------------
(* Option, Result and JsValue *)

None == [some |-> FALSE]
Some(v) == [some |-> TRUE, val |-> v]
Ok(v) == [ok |-> TRUE, val |-> v]
Err(e) == [ok |-> FALSE, err |-> e]
Unit == "()"

JsNull == [type |-> "null"]
JsBool(b) == [type |-> "boolean", val |-> b]
JsString(s) == [type |-> "string", val |-> s]

(* JsValue::as_bool: Some(b) for a JS boolean, None for anything else *)
as_bool(v) == IF v.type = "boolean" THEN Some(v.val) ELSE None
unwrap_or(o, d) == IF o.some THEN o.val ELSE d

(* mutant: a negative value is clamped to 0 by the conversion *)
as_u32_saturating(x) == IF x >= 0 THEN <<x \div 65536, x % 65536>> ELSE <<0, 0>>

(* `x as u32` for an i32 x, as the two 16-bit halves <<high, low>> of the *)
(* 32-bit result (2^32 - 1 is <<65535, 65535>>).                          *)
as_u32(x) ==
  IF x >= 0 THEN <<x \div 65536, x % 65536>>
  ELSE LET y == (x + 2147483647) + 1
       IN <<(y \div 65536) + 32768, y % 65536>>

-----------------------------------------------------------------------------
(* The WebGL rendering context *)

MAX_VERTEX_ATTRIBS == 8
SHADER_LOG == "ERROR: shader did not compile"
PROGRAM_LOG == "ERROR: program did not link"

NoAttrib == [enabled |-> FALSE, buffer |-> None, size |-> 4, type |-> "FLOAT",
             normalized |-> FALSE, stride |-> 0, offset |-> 0]

GlInit ==
  [nextId |-> 1,
   shaders |-> <<>>,
   programs |-> <<>>,
   buffers |-> <<>>,
   ARRAY_BUFFER |-> None,
   CURRENT_PROGRAM |-> None,
   attribs |-> [i \in 0..(MAX_VERTEX_ATTRIBS - 1) |-> NoAttrib],
   COLOR_CLEAR_VALUE |-> <<0, 0, 0, 0>>,
   DEPTH_CLEAR_VALUE |-> 1,
   DEPTH_TEST |-> FALSE,
   DEPTH_FUNC |-> "LESS",
   cleared |-> {},
   drawn |-> 0]

gl_create_shader(g, kind) ==
  [g EXCEPT !.nextId = @ + 1,
            !.shaders = (g.nextId :> [kind |-> kind, source |-> "", compiled |-> FALSE]) @@ @]

gl_shader_source(g, s, src) == [g EXCEPT !.shaders[s].source = src]

gl_compile_shader(g, s, good) == [g EXCEPT !.shaders[s].compiled = good]

gl_create_program(g) ==
  [g EXCEPT !.nextId = @ + 1,
            !.programs = (g.nextId :> [attached |-> <<>>, linked |-> FALSE,
                                       uniforms |-> <<>>]) @@ @]

gl_attach_shader(g, p, s) == [g EXCEPT !.programs[p].attached = Append(@, s)]

gl_link_program(g, p, good) == [g EXCEPT !.programs[p].linked = good]

gl_use_program(g, p) == [g EXCEPT !.CURRENT_PROGRAM = Some(p)]

gl_create_buffer(g) ==
  [g EXCEPT !.nextId = @ + 1,
            !.buffers = (g.nextId :> [data |-> <<>>, usage |-> "NONE"]) @@ @]

gl_bind_buffer(g, b) == [g EXCEPT !.ARRAY_BUFFER = b]

(* bufferData writes to whatever buffer is bound to ARRAY_BUFFER *)
gl_buffer_data(g, data, usage) ==
  IF g.ARRAY_BUFFER.some
  THEN [g EXCEPT !.buffers[g.ARRAY_BUFFER.val] = [data |-> data, usage |-> usage]]
  ELSE g

ValidIndex(idx) == idx[1] = 0 /\ idx[2] < MAX_VERTEX_ATTRIBS

(* vertexAttribPointer latches the buffer bound at the time of the call; *)
(* an index >= MAX_VERTEX_ATTRIBS is an INVALID_VALUE error and a no-op. *)
gl_vertex_attrib_pointer(g, idx, size, type, norm, stride, offset) ==
  IF ValidIndex(idx)
  THEN [g EXCEPT !.attribs[idx[2]] =
          [@ EXCEPT !.buffer = g.ARRAY_BUFFER, !.size = size, !.type = type,
                    !.normalized = norm, !.stride = stride, !.offset = offset]]
  ELSE g

gl_enable_vertex_attrib_array(g, idx) ==
  IF ValidIndex(idx) THEN [g EXCEPT !.attribs[idx[2]].enabled = TRUE] ELSE g

(* uniformMatrix4fv with a null location is a silent no-op *)
gl_uniform_matrix4fv(g, loc, transpose, m) ==
  IF loc.some
  THEN [g EXCEPT !.programs[loc.val.program].uniforms = (loc.val.name :> m) @@ @]
  ELSE g

gl_clear_color(g, c) == [g EXCEPT !.COLOR_CLEAR_VALUE = c]
gl_clear_depth(g, d) == [g EXCEPT !.DEPTH_CLEAR_VALUE = d]
gl_enable(g, cap) == [g EXCEPT !.DEPTH_TEST = TRUE]
gl_depth_func(g, f) == [g EXCEPT !.DEPTH_FUNC = f]
gl_clear(g, bit) == [g EXCEPT !.cleared = @ \cup {bit}]
gl_draw_arrays(g, mode, first, count) == [g EXCEPT !.drawn = @ + 1, !.cleared = {}]

-----------------------------------------------------------------------------
(* Program state *)

VARIABLES pc, run, gl, trace, locals, result, transforms

vars == <<pc, run, gl, trace, locals, result, transforms>>

Runs == 1..MaxRuns

LocalsInit ==
  [shader_type |-> "VERTEX_SHADER",
   shader |-> 0,
   vertex_shader |-> 0,
   fragment_shader |-> 0,
   shader_program |-> 0,
   position_buffer |-> None,
   color_buffer |-> None,
   vertex_position |-> <<0, 0>>,
   program_projection_matrix |-> None,
   program_model_view_matrix |-> None]

(* The transforms of one canvas size, as they are computed step by step: *)
(* the inputs, the step to take next, and what has been computed.        *)
TransformsFor(w, h) ==
  [canvasWidth |-> w, canvasHeight |-> h, step |-> "aspect",
   aspect |-> 0, model_view |-> <<>>, projection |-> <<>>, panic |-> ""]

(* the value start returned in each run, once it has returned *)
NoResult == [returned |-> FALSE]
Returned(v) == [returned |-> TRUE, value |-> v]

Init ==
  /\ pc = "start"
  /\ run = 1
  /\ gl = GlInit
  /\ trace = [r \in Runs |-> <<>>]
  /\ locals = LocalsInit
  /\ result = [r \in Runs |-> NoResult]
  /\ transforms = TransformsFor(CANVAS_WIDTH, CANVAS_HEIGHT)

(* Record one event of the current run: a context call with its arguments *)
(* and answer, or the return of one of the program's functions.           *)
Event(op, args, ret) == [op |-> op, args |-> args, ret |-> ret]
Log(op, args, ret) == trace' = [trace EXCEPT ![run] = Append(@, Event(op, args, ret))]
Log2(e1, e2) == trace' = [trace EXCEPT ![run] = Append(Append(@, e1), e2)]

(* start returns r *)
Return(r) == /\ result' = [result EXCEPT ![run] = Returned(r)]
             /\ pc' = "done"

-----------------------------------------------------------------------------
(* start, lines 29-32: clear the canvas before the pipeline *)

StartClearColor ==
  /\ pc = "start"
  /\ gl' = gl_clear_color(gl, <<0, 0, 0, 1>>)
  /\ Log("clear_color", <<0, 0, 0, 1>>, Unit)
  /\ pc' = "start_clear"
  /\ UNCHANGED <<transforms, run, locals, result>>

StartClear ==
  /\ pc = "start_clear"
  /\ gl' = gl_clear(gl, "COLOR_BUFFER_BIT")
  /\ Log("clear", <<"COLOR_BUFFER_BIT">>, Unit)
  /\ locals' = [locals EXCEPT !.shader_type = "VERTEX_SHADER"]
  /\ pc' = "ls_create"
  /\ UNCHANGED <<transforms, run, result>>

-----------------------------------------------------------------------------
(* load_shader, lines 62-84; called for the vertex shader, then for the *)
(* fragment shader (lines 91-96)                                        *)

SourceOf(kind) == IF kind = "VERTEX_SHADER" THEN vs_source ELSE fs_source

(* mutant: start reports the generic error for every failure *)
start_try_generic(e) == Err(JsString("Error"))

(* `?` of start on a failed init_shader_program / init_buffers (lines 50, 53) *)
start_try(e) == Err(JsString(e))

(* mutant: a status that is not a boolean counts as compiled *)
compile_status_ok_lenient(status) == unwrap_or(as_bool(status), TRUE)

(* the condition of lines 73-77 *)
compile_status_ok(status) == unwrap_or(as_bool(status), FALSE)

(* mutant: a status that is not a boolean counts as linked *)
link_status_ok_lenient(status) == unwrap_or(as_bool(status), TRUE)

(* the condition of lines 106-110 *)
link_status_ok(status) == unwrap_or(as_bool(status), FALSE)

(* the error text of lines 80-82 *)
shader_error(log) == unwrap_or(log, "Unknown error creating shader")

(* mutant: the fallback text of load_shader pasted into the link step *)
program_error_pasted(log) == unwrap_or(log, "Unknown error creating shader")

(* the error text of lines 113-115 *)
program_error(log) == unwrap_or(log, "Unknown error creating program object")

(* load_shader returned Err(e): init_shader_program returns it (`?`, lines *)
(* 91, 96) and so does start (`?`, line 50)                                *)
ShaderFailed(call, e) ==
  /\ trace' = [trace EXCEPT ![run] =
        Append(Append(Append(@, call),
                      Event("return", <<"load_shader", locals.shader_type>>, Err(e))),
               Event("return", <<"init_shader_program">>, Err(e)))]
  /\ Return(start_try(e))

LsCreateShader ==
  /\ pc = "ls_create"
  /\ \E created \in BOOLEAN :
       IF created
       THEN /\ gl' = gl_create_shader(gl, locals.shader_type)
            /\ locals' = [locals EXCEPT !.shader = gl.nextId]
            /\ Log("create_shader", <<locals.shader_type>>, Some(gl.nextId))
            /\ pc' = "ls_source"
            /\ UNCHANGED result
       ELSE /\ ShaderFailed(Event("create_shader", <<locals.shader_type>>, None),
                            "Unable to create shader object")
            /\ UNCHANGED <<gl, locals>>
  /\ UNCHANGED <<transforms, run>>

LsShaderSource ==
  /\ pc = "ls_source"
  /\ gl' = gl_shader_source(gl, locals.shader, SourceOf(locals.shader_type))
  /\ Log("shader_source", <<locals.shader, SourceOf(locals.shader_type)>>, Unit)
  /\ pc' = "ls_compile"
  /\ UNCHANGED <<transforms, run, locals, result>>

LsCompileShader ==
  /\ pc = "ls_compile"
  /\ \E good \in BOOLEAN : gl' = gl_compile_shader(gl, locals.shader, good)
  /\ Log("compile_shader", <<locals.shader>>, Unit)
  /\ pc' = "ls_status"
  /\ UNCHANGED <<transforms, run, locals, result>>

(* lines 73-78: the status is the shader's compile state, or null when the *)
(* context cannot answer (lost context)                                    *)
LsCompileStatus ==
  /\ pc = "ls_status"
  /\ \E status \in {JsBool(gl.shaders[locals.shader].compiled), JsNull} :
       LET call == Event("get_shader_parameter", <<locals.shader, "COMPILE_STATUS">>, status)
           ret == Event("return", <<"load_shader", locals.shader_type>>, Ok(locals.shader))
       IN IF compile_status_ok(status)
          THEN /\ Log2(call, ret)
               /\ IF locals.shader_type = "VERTEX_SHADER"
                  THEN /\ locals' = [locals EXCEPT !.vertex_shader = locals.shader,
                                                   !.shader_type = "FRAGMENT_SHADER"]
                       /\ pc' = "ls_create"
                  ELSE /\ locals' = [locals EXCEPT !.fragment_shader = locals.shader]
                       /\ pc' = "isp_create"
          ELSE /\ trace' = [trace EXCEPT ![run] = Append(@, call)]
               /\ pc' = "ls_log"
               /\ UNCHANGED locals
  /\ UNCHANGED <<transforms, run, gl, result>>

LsInfoLog ==
  /\ pc = "ls_log"
  /\ \E log \in {None, Some(SHADER_LOG)} :
       ShaderFailed(Event("get_shader_info_log", <<locals.shader>>, log), shader_error(log))
  /\ UNCHANGED <<transforms, run, gl, locals>>

-----------------------------------------------------------------------------
(* init_shader_program, lines 98-116 *)

ProgramFailed(call, e) ==
  /\ Log2(call, Event("return", <<"init_shader_program">>, Err(e)))
  /\ Return(start_try(e))

IspCreateProgram ==
  /\ pc = "isp_create"
  /\ \E created \in BOOLEAN :
       IF created
       THEN /\ gl' = gl_create_program(gl)
            /\ locals' = [locals EXCEPT !.shader_program = gl.nextId]
            /\ Log("create_program", <<>>, Some(gl.nextId))
            /\ pc' = "isp_attach_vs"
            /\ UNCHANGED result
       ELSE /\ ProgramFailed(Event("create_program", <<>>, None),
                             "Unable to create shader object")
            /\ UNCHANGED <<gl, locals>>
  /\ UNCHANGED <<transforms, run>>

IspAttachVertex ==
  /\ pc = "isp_attach_vs"
  /\ gl' = gl_attach_shader(gl, locals.shader_program, locals.vertex_shader)
  /\ Log("attach_shader", <<locals.shader_program, locals.vertex_shader>>, Unit)
  /\ pc' = "isp_attach_fs"
  /\ UNCHANGED <<transforms, run, locals, result>>

(* mutant: the vertex shader is attached a second time in place of the *)
(* fragment shader                                                     *)
IspAttachFragment_pasted ==
  /\ pc = "isp_attach_fs"
  /\ gl' = gl_attach_shader(gl, locals.shader_program, locals.vertex_shader)
  /\ Log("attach_shader", <<locals.shader_program, locals.vertex_shader>>, Unit)
  /\ pc' = "isp_link"
  /\ UNCHANGED <<transforms, run, locals, result>>

IspAttachFragment ==
  /\ pc = "isp_attach_fs"
  /\ gl' = gl_attach_shader(gl, locals.shader_program, locals.fragment_shader)
  /\ Log("attach_shader", <<locals.shader_program, locals.fragment_shader>>, Unit)
  /\ pc' = "isp_link"
  /\ UNCHANGED <<transforms, run, locals, result>>

IspLinkProgram ==
  /\ pc = "isp_link"
  /\ \E good \in BOOLEAN : gl' = gl_link_program(gl, locals.shader_program, good)
  /\ Log("link_program", <<locals.shader_program>>, Unit)
  /\ pc' = "isp_status"
  /\ UNCHANGED <<transforms, run, locals, result>>

IspLinkStatus ==
  /\ pc = "isp_status"
  /\ \E status \in {JsBool(gl.programs[locals.shader_program].linked), JsNull} :
       LET call == Event("get_program_parameter", <<locals.shader_program, "LINK_STATUS">>, status)
           ret == Event("return", <<"init_shader_program">>, Ok(locals.shader_program))
       IN IF link_status_ok(status)
          THEN /\ Log2(call, ret)
               /\ pc' = "start_use"
          ELSE /\ trace' = [trace EXCEPT ![run] = Append(@, call)]
               /\ pc' = "isp_log"
  /\ UNCHANGED <<transforms, run, gl, locals, result>>

IspInfoLog ==
  /\ pc = "isp_log"
  /\ \E log \in {None, Some(PROGRAM_LOG)} :
       ProgramFailed(Event("get_program_info_log", <<locals.shader_program>>, log),
                     program_error(log))
  /\ UNCHANGED <<transforms, run, gl, locals>>

(* start, line 51 *)
StartUseProgram ==
  /\ pc = "start_use"
  /\ gl' = gl_use_program(gl, locals.shader_program)
  /\ Log("use_program", <<locals.shader_program>>, Unit)
  /\ pc' = "ib_create_position"
  /\ UNCHANGED <<transforms, run, locals, result>>

-----------------------------------------------------------------------------
(* init_buffers, lines 119-162 *)

position_buffer_error == "Error creating color buffer"
color_buffer_error == "Error creating position buffer"

BuffersFailed(call, e) ==
  /\ Log2(call, Event("return", <<"init_buffers">>, Err(e)))
  /\ Return(start_try(e))

IbCreatePosition ==
  /\ pc = "ib_create_position"
  /\ \E created \in BOOLEAN :
       IF created
       THEN /\ gl' = gl_create_buffer(gl)
            /\ locals' = [locals EXCEPT !.position_buffer = Some(gl.nextId)]
            /\ Log("create_buffer", <<>>, Some(gl.nextId))
            /\ pc' = "ib_bind_position"
            /\ UNCHANGED result
       ELSE /\ locals' = [locals EXCEPT !.position_buffer = None]
            /\ BuffersFailed(Event("create_buffer", <<>>, None),
                             position_buffer_error)
            /\ UNCHANGED gl
  /\ UNCHANGED <<transforms, run>>

IbBindPosition ==
  /\ pc = "ib_bind_position"
  /\ gl' = gl_bind_buffer(gl, locals.position_buffer)
  /\ Log("bind_buffer", <<"ARRAY_BUFFER", locals.position_buffer>>, Unit)
  /\ pc' = "ib_data_position"
  /\ UNCHANGED <<transforms, run, locals, result>>

IbDataPosition ==
  /\ pc = "ib_data_position"
  /\ gl' = gl_buffer_data(gl, positions, "STATIC_DRAW")
  /\ Log("buffer_data", <<"ARRAY_BUFFER", positions, "STATIC_DRAW">>, Unit)
  /\ pc' = "ib_create_color"
  /\ UNCHANGED <<transforms, run, locals, result>>

(* mutant: a failed color buffer is ignored and the frame is drawn anyway *)
IbCreateColor_continue ==
  /\ pc = "ib_create_color"
  /\ \E created \in BOOLEAN :
       IF created
       THEN /\ gl' = gl_create_buffer(gl)
            /\ locals' = [locals EXCEPT !.color_buffer = Some(gl.nextId)]
            /\ Log("create_buffer", <<>>, Some(gl.nextId))
            /\ pc' = "ib_bind_color"
       ELSE /\ locals' = [locals EXCEPT !.color_buffer = None]
            /\ Log("create_buffer", <<>>, None)
            /\ pc' = "ds_clear_color"
            /\ UNCHANGED gl
  /\ UNCHANGED <<transforms, run, result>>

IbCreateColor ==
  /\ pc = "ib_create_color"
  /\ \E created \in BOOLEAN :
       IF created
       THEN /\ gl' = gl_create_buffer(gl)
            /\ locals' = [locals EXCEPT !.color_buffer = Some(gl.nextId)]
            /\ Log("create_buffer", <<>>, Some(gl.nextId))
            /\ pc' = "ib_bind_color"
            /\ UNCHANGED result
       ELSE /\ locals' = [locals EXCEPT !.color_buffer = None]
            /\ BuffersFailed(Event("create_buffer", <<>>, None),
                             color_buffer_error)
            /\ UNCHANGED gl
  /\ UNCHANGED <<transforms, run>>

(* mutant: the color buffer is not bound before its upload *)
IbBindColor_skipped ==
  /\ pc = "ib_bind_color"
  /\ pc' = "ib_data_color"
  /\ UNCHANGED <<transforms, run, gl, trace, locals, result>>

IbBindColor ==
  /\ pc = "ib_bind_color"
  /\ gl' = gl_bind_buffer(gl, locals.color_buffer)
  /\ Log("bind_buffer", <<"ARRAY_BUFFER", locals.color_buffer>>, Unit)
  /\ pc' = "ib_data_color"
  /\ UNCHANGED <<transforms, run, locals, result>>

IbDataColor ==
  /\ pc = "ib_data_color"
  /\ gl' = gl_buffer_data(gl, colors, "STATIC_DRAW")
  /\ Log2(Event("buffer_data", <<"ARRAY_BUFFER", colors, "STATIC_DRAW">>, Unit),
          Event("return", <<"init_buffers">>,
                Ok(<<locals.position_buffer.val, locals.color_buffer.val>>)))
  /\ pc' = "ds_clear_color"
  /\ UNCHANGED <<transforms, run, locals, result>>

-----------------------------------------------------------------------------
(* The transforms of draw_scene, lines 178-196 and 220 *)

Abs(x) == IF x < 0 THEN -x ELSE x

(* fixed-point product and quotient, truncated toward zero *)
TDiv(a, b) == IF (a >= 0) = (b > 0) THEN Abs(a) \div Abs(b) ELSE -(Abs(a) \div Abs(b))
FMul(a, b) == TDiv(a * b, Scale)
FDiv(a, b) == TDiv(a * Scale, b)

(* Rad::cot, tabulated at the one angle the program uses (22.5 degrees) *)
cot(a) == CASE a = 392 -> 2414

(* mutant: the operands are converted to f32 before the division *)
Aspect_float(h, w) == (h * Scale) \div w

(* line 181, for a canvas of height h and width w # 0: u32 division, then *)
(* `as f32`                                                               *)
Aspect(h, w) == (h \div w) * Scale

ASPECT == Aspect(CANVAS_HEIGHT, CANVAS_WIDTH)

perspective_fov == [fovy |-> FIELD_OF_VIEW, aspect |-> ASPECT, near |-> Z_NEAR, far |-> Z_FAR]

(* Matrix4::from(PerspectiveFov), column-major *)
Matrix4_from(persp) ==
  LET two == 2 * Scale
      f == cot(TDiv(persp.fovy * Scale, two))
      c0r0 == FDiv(f, persp.aspect)
      c1r1 == f
      c2r2 == FDiv(persp.far + persp.near, persp.near - persp.far)
      c2r3 == -Scale
      c3r2 == FDiv(FMul(FMul(two, persp.far), persp.near), persp.near - persp.far)
  IN <<c0r0, 0, 0, 0,
       0, c1r1, 0, 0,
       0, 0, c2r2, c2r3,
       0, 0, c3r2, 0>>

(* mutant: the translation is written into the last row, not the last column *)
from_translation_row_major(v) ==
  <<Scale, 0, 0, v.x,
    0, Scale, 0, v.y,
    0, 0, Scale, v.z,
    0, 0, 0, Scale>>

(* Matrix4::from_translation, column-major *)
from_translation(v) ==
  <<Scale, 0, 0, 0,
    0, Scale, 0, 0,
    0, 0, Scale, 0,
    v.x, v.y, v.z, Scale>>

projection_matrix == Matrix4_from(perspective_fov)
model_view_matrix == from_translation([x |-> 0, y |-> 0, z |-> -6 * Scale])

-----------------------------------------------------------------------------
(* The transforms for any canvas size: the computations of lines 181,     *)
(* 185-196 and 220 with CANVAS_WIDTH and CANVAS_HEIGHT as inputs.         *)

(* Largest small canvas dimension tried. *)
MaxDim == 4

CanvasSizes == (0..MaxDim) \cup {CANVAS_WIDTH, CANVAS_HEIGHT}

mainVars == <<pc, run, gl, trace, locals, result>>

(* the assertions of Matrix4::from(PerspectiveFov): the message of the *)
(* first one that fails, "" when all hold                              *)
perspective_assert(persp) ==
  CASE ~(persp.fovy > 0) -> "The vertical field of view cannot be below zero"
    [] ~(persp.fovy < 3141) -> "The vertical field of view cannot be greater than a half turn"
    [] ~(Abs(persp.aspect) # 0) -> "The absolute aspect ratio cannot be zero"
    [] ~(persp.near > 0) -> "The near plane distance cannot be below zero"
    [] ~(persp.far > 0) -> "The far plane distance cannot be below zero"
    [] ~(persp.far # persp.near) -> "The far plane and near plane are too close"
    [] OTHER -> ""

(* line 181: integer division; a zero divisor is a division by zero *)
BtAspect ==
  /\ transforms.step = "aspect"
  /\ transforms' =
       IF transforms.canvasWidth = 0
       THEN [transforms EXCEPT !.step = "panic", !.panic = "attempt to divide by zero"]
       ELSE [transforms EXCEPT !.step = "model_view",
                               !.aspect = Aspect(transforms.canvasHeight, transforms.canvasWidth)]
  /\ UNCHANGED mainVars

(* lines 192-196 *)
BtModelView ==
  /\ transforms.step = "model_view"
  /\ transforms' = [transforms EXCEPT !.step = "projection",
                                      !.model_view = from_translation([x |-> 0, y |-> 0, z |-> -6 * Scale])]
  /\ UNCHANGED mainVars

(* lines 185-190 and 220 *)
BtProjection ==
  /\ transforms.step = "projection"
  /\ LET persp == [fovy |-> FIELD_OF_VIEW, aspect |-> transforms.aspect,
                   near |-> Z_NEAR, far |-> Z_FAR]
     IN transforms' =
          IF perspective_assert(persp) # ""
          THEN [transforms EXCEPT !.step = "panic", !.panic = perspective_assert(persp)]
          ELSE [transforms EXCEPT !.step = "done", !.projection = Matrix4_from(persp)]
  /\ UNCHANGED mainVars

InitTransforms ==
  /\ pc = "start"
  /\ run = 1
  /\ gl = GlInit
  /\ trace = [r \in Runs |-> <<>>]
  /\ locals = LocalsInit
  /\ result = [r \in Runs |-> NoResult]
  /\ \E w \in CanvasSizes : \E h \in CanvasSizes : transforms = TransformsFor(w, h)

NextTransforms == BtAspect \/ BtModelView \/ BtProjection

SpecTransforms == InitTransforms /\ [][NextTransforms]_vars

-----------------------------------------------------------------------------
(* draw_scene, lines 164-241 *)

DsClearColor ==
  /\ pc = "ds_clear_color"
  /\ gl' = gl_clear_color(gl, <<0, 0, 0, 1>>)
  /\ Log("clear_color", <<0, 0, 0, 1>>, Unit)
  /\ pc' = "ds_clear_depth"
  /\ UNCHANGED <<transforms, run, locals, result>>

DsClearDepth ==
  /\ pc = "ds_clear_depth"
  /\ gl' = gl_clear_depth(gl, 1)
  /\ Log("clear_depth", <<1>>, Unit)
  /\ pc' = "ds_enable"
  /\ UNCHANGED <<transforms, run, locals, result>>

DsEnable ==
  /\ pc = "ds_enable"
  /\ gl' = gl_enable(gl, "DEPTH_TEST")
  /\ Log("enable", <<"DEPTH_TEST">>, Unit)
  /\ pc' = "ds_depth_func"
  /\ UNCHANGED <<transforms, run, locals, result>>

DsDepthFunc ==
  /\ pc = "ds_depth_func"
  /\ gl' = gl_depth_func(gl, "LEQUAL")
  /\ Log("depth_func", <<"LEQUAL">>, Unit)
  /\ pc' = "ds_clear_c"
  /\ UNCHANGED <<transforms, run, locals, result>>

DsClearColorBuffer ==
  /\ pc = "ds_clear_c"
  /\ gl' = gl_clear(gl, "COLOR_BUFFER_BIT")
  /\ Log("clear", <<"COLOR_BUFFER_BIT">>, Unit)
  /\ pc' = "ds_clear_d"
  /\ UNCHANGED <<transforms, run, locals, result>>

(* mutant: the color buffer is cleared twice and the depth buffer never *)
DsClearDepthBuffer_pasted ==
  /\ pc = "ds_clear_d"
  /\ gl' = gl_clear(gl, "COLOR_BUFFER_BIT")
  /\ Log("clear", <<"COLOR_BUFFER_BIT">>, Unit)
  /\ pc' = "ds_bind"
  /\ UNCHANGED <<transforms, run, locals, result>>

DsClearDepthBuffer ==
  /\ pc = "ds_clear_d"
  /\ gl' = gl_clear(gl, "DEPTH_BUFFER_BIT")
  /\ Log("clear", <<"DEPTH_BUFFER_BIT">>, Unit)
  /\ pc' = "ds_bind"
  /\ UNCHANGED <<transforms, run, locals, result>>

(* mutant: draw_scene does not bind the position buffer again *)
DsBindBuffer_skipped ==
  /\ pc = "ds_bind"
  /\ pc' = "ds_attrib_location"
  /\ UNCHANGED <<transforms, run, gl, trace, locals, result>>

DsBindBuffer ==
  /\ pc = "ds_bind"
  /\ gl' = gl_bind_buffer(gl, Some(locals.position_buffer.val))
  /\ Log("bind_buffer", <<"ARRAY_BUFFER", Some(locals.position_buffer.val)>>, Unit)
  /\ pc' = "ds_attrib_location"
  /\ UNCHANGED <<transforms, run, locals, result>>

(* lines 55-59 of start *)
start_finish(r) == IF r.ok THEN Ok(Unit) ELSE Err(JsString("Error"))

(* mutant: an unresolved attribute makes draw_scene fail *)
DsGetAttribLocation_strict ==
  /\ pc = "ds_attrib_location"
  /\ \E location \in {-1, 0} :
       LET call == Event("get_attrib_location", <<locals.shader_program, "aVertexPosition">>,
                         location)
       IN IF location < 0
          THEN /\ Log2(call, Event("return", <<"draw_scene">>, Err("AttributeNotFoundError")))
               /\ Return(start_finish(Err("AttributeNotFoundError")))
               /\ UNCHANGED locals
          ELSE /\ locals' = [locals EXCEPT !.vertex_position = as_u32(location)]
               /\ trace' = [trace EXCEPT ![run] = Append(@, call)]
               /\ pc' = "ds_vertex_attrib_pointer"
               /\ UNCHANGED result
  /\ UNCHANGED <<transforms, run, gl>>

(* line 205: -1 when the name is not an active attribute of the program *)
DsGetAttribLocation ==
  /\ pc = "ds_attrib_location"
  /\ \E location \in {-1, 0} :
       /\ locals' = [locals EXCEPT !.vertex_position = as_u32(location)]
       /\ Log("get_attrib_location", <<locals.shader_program, "aVertexPosition">>, location)
  /\ pc' = "ds_vertex_attrib_pointer"
  /\ UNCHANGED <<transforms, run, gl, result>>

DsVertexAttribPointer ==
  /\ pc = "ds_vertex_attrib_pointer"
  /\ gl' = gl_vertex_attrib_pointer(gl, locals.vertex_position, NUM_COMPONENTS, VAP_TYPE,
                                    NORMALIZE, STRIDE, OFFSET)
  /\ Log("vertex_attrib_pointer",
         <<locals.vertex_position, NUM_COMPONENTS, VAP_TYPE, NORMALIZE, STRIDE, OFFSET>>, Unit)
  /\ pc' = "ds_enable_vertex_attrib_array"
  /\ UNCHANGED <<transforms, run, locals, result>>

DsEnableVertexAttribArray ==
  /\ pc = "ds_enable_vertex_attrib_array"
  /\ gl' = gl_enable_vertex_attrib_array(gl, locals.vertex_position)
  /\ Log("enable_vertex_attrib_array", <<locals.vertex_position>>, Unit)
  /\ pc' = "ds_use_program"
  /\ UNCHANGED <<transforms, run, locals, result>>

(* mutant: the draw call is issued before the uniform uploads *)
DsUseProgram_then_draw ==
  /\ pc = "ds_use_program"
  /\ gl' = gl_use_program(gl, locals.shader_program)
  /\ Log("use_program", <<locals.shader_program>>, Unit)
  /\ pc' = "ds_draw"
  /\ UNCHANGED <<transforms, run, locals, result>>

DsUseProgram ==
  /\ pc = "ds_use_program"
  /\ gl' = gl_use_program(gl, locals.shader_program)
  /\ Log("use_program", <<locals.shader_program>>, Unit)
  /\ pc' = "ds_projection_location"
  /\ UNCHANGED <<transforms, run, locals, result>>

UniformLocations(p, name) == {None, Some([program |-> p, name |-> name])}

(* mutant: a uniform that is not found makes draw_scene fail *)
DsProjectionLocation_strict ==
  /\ pc = "ds_projection_location"
  /\ \E location \in UniformLocations(locals.shader_program, "uProjectionMatrix") :
       LET call == Event("get_uniform_location", <<locals.shader_program, "uProjectionMatrix">>,
                         location)
       IN IF ~location.some
          THEN /\ Log2(call, Event("return", <<"draw_scene">>, Err("UniformNotFoundError")))
               /\ Return(start_finish(Err("UniformNotFoundError")))
               /\ UNCHANGED locals
          ELSE /\ locals' = [locals EXCEPT !.program_projection_matrix = location]
               /\ trace' = [trace EXCEPT ![run] = Append(@, call)]
               /\ pc' = "ds_projection_upload"
               /\ UNCHANGED result
  /\ UNCHANGED <<transforms, run, gl>>

DsProjectionLocation ==
  /\ pc = "ds_projection_location"
  /\ \E location \in UniformLocations(locals.shader_program, "uProjectionMatrix") :
       /\ locals' = [locals EXCEPT !.program_projection_matrix = location]
       /\ Log("get_uniform_location", <<locals.shader_program, "uProjectionMatrix">>, location)
  /\ pc' = "ds_projection_upload"
  /\ UNCHANGED <<transforms, run, gl, result>>

DsProjectionUpload ==
  /\ pc = "ds_projection_upload"
  /\ gl' = gl_uniform_matrix4fv(gl, locals.program_projection_matrix, FALSE, projection_matrix)
  /\ Log("uniform_matrix4fv",
         <<locals.program_projection_matrix, FALSE, projection_matrix>>, Unit)
  /\ pc' = "ds_model_view_location"
  /\ UNCHANGED <<transforms, run, locals, result>>

DsModelViewLocation ==
  /\ pc = "ds_model_view_location"
  /\ \E location \in UniformLocations(locals.shader_program, "uModelViewMatrix") :
       /\ locals' = [locals EXCEPT !.program_model_view_matrix = location]
       /\ Log("get_uniform_location", <<locals.shader_program, "uModelViewMatrix">>, location)
  /\ pc' = "ds_model_view_upload"
  /\ UNCHANGED <<transforms, run, gl, result>>

(* mutant: the model-view matrix is kept across frames and translated again *)
(* in every frame                                                         *)
DsModelViewUpload_accumulating ==
  /\ pc = "ds_model_view_upload"
  /\ LET m == from_translation([x |-> 0, y |-> 0, z |-> -6 * Scale * (gl.drawn + 1)])
     IN /\ gl' = gl_uniform_matrix4fv(gl, locals.program_model_view_matrix, FALSE, m)
        /\ Log("uniform_matrix4fv", <<locals.program_model_view_matrix, FALSE, m>>, Unit)
  /\ pc' = "ds_draw"
  /\ UNCHANGED <<transforms, run, locals, result>>

DsModelViewUpload ==
  /\ pc = "ds_model_view_upload"
  /\ gl' = gl_uniform_matrix4fv(gl, locals.program_model_view_matrix, FALSE, model_view_matrix)
  /\ Log("uniform_matrix4fv",
         <<locals.program_model_view_matrix, FALSE, model_view_matrix>>, Unit)
  /\ pc' = "ds_draw"
  /\ UNCHANGED <<transforms, run, locals, result>>

(* mutant: the quad is drawn as two separate draw calls *)
DsDrawArrays_twice ==
  /\ pc = "ds_draw"
  /\ gl' = gl_draw_arrays(gl_draw_arrays(gl, "TRIANGLE_STRIP", OFFSET, VERTEX_COUNT),
                          "TRIANGLE_STRIP", OFFSET, VERTEX_COUNT)
  /\ trace' = [trace EXCEPT ![run] =
        Append(Append(Append(@, Event("draw_arrays", <<"TRIANGLE_STRIP", OFFSET, VERTEX_COUNT>>, Unit)),
                      Event("draw_arrays", <<"TRIANGLE_STRIP", OFFSET, VERTEX_COUNT>>, Unit)),
               Event("return", <<"draw_scene">>, Ok(Unit)))]
  /\ Return(start_finish(Ok(Unit)))
  /\ UNCHANGED <<transforms, run, locals>>

(* lines 237-240, and the return of start *)
DsDrawArrays ==
  /\ pc = "ds_draw"
  /\ gl' = gl_draw_arrays(gl, "TRIANGLE_STRIP", OFFSET, VERTEX_COUNT)
  /\ Log2(Event("draw_arrays", <<"TRIANGLE_STRIP", OFFSET, VERTEX_COUNT>>, Unit),
          Event("return", <<"draw_scene">>, Ok(Unit)))
  /\ Return(start_finish(Ok(Unit)))
  /\ UNCHANGED <<transforms, run, locals>>

-----------------------------------------------------------------------------
(* The host runs start again on the same canvas; get_context returns the *)
(* same context, with the state the previous run left in it.             *)
StartAgain ==
  /\ pc = "done"
  /\ run < MaxRuns
  /\ run' = run + 1
  /\ locals' = LocalsInit
  /\ pc' = "start"
  /\ UNCHANGED <<gl, trace, result, transforms>>

Next ==
  \/ StartClearColor \/ StartClear
  \/ LsCreateShader \/ LsShaderSource \/ LsCompileShader \/ LsCompileStatus \/ LsInfoLog
  \/ IspCreateProgram \/ IspAttachVertex \/ IspAttachFragment \/ IspLinkProgram
  \/ IspLinkStatus \/ IspInfoLog
  \/ StartUseProgram
  \/ IbCreatePosition \/ IbBindPosition \/ IbDataPosition
  \/ IbCreateColor \/ IbBindColor \/ IbDataColor
  \/ DsClearColor \/ DsClearDepth \/ DsEnable \/ DsDepthFunc
  \/ DsClearColorBuffer \/ DsClearDepthBuffer
  \/ DsBindBuffer \/ DsGetAttribLocation \/ DsVertexAttribPointer
  \/ DsEnableVertexAttribArray \/ DsUseProgram
  \/ DsProjectionLocation \/ DsProjectionUpload
  \/ DsModelViewLocation \/ DsModelViewUpload
  \/ DsDrawArrays
  \/ StartAgain

Spec == Init /\ [][Next]_vars

-----------------------------------------------------------------------------
(* Reading the event log *)

Events(r) == 1..Len(trace[r])
Ev(r, i) == trace[r][i]
IsCall(r, i, op) == Ev(r, i).op = op
IsReturn(r, i, fn) == Ev(r, i).op = "return" /\ Ev(r, i).args[1] = fn

(* the index of the last event before i that calls op; 0 if there is none *)
LastCall(r, i, op) ==
  LET S == {j \in 1..(i - 1) : IsCall(r, j, op)}
  IN IF S = {} THEN 0 ELSE CHOOSE j \in S : \A k \in S : k <= j

(* the index where draw_scene is entered: the successful return of init_buffers *)
DrawSceneEntry(r) ==
  LET S == {j \in Events(r) : IsReturn(r, j, "init_buffers") /\ Ev(r, j).ret.ok}
  IN IF S = {} THEN 0 ELSE CHOOSE j \in S : TRUE

DrawCalls(r) == {i \in Events(r) : IsCall(r, i, "draw_arrays")}

(* the handles the run's successful load_shader calls returned *)
CompiledShaders(r) ==
  {Ev(r, i).ret.val : i \in {j \in Events(r) : IsReturn(r, j, "load_shader") /\ Ev(r, j).ret.ok}}

-----------------------------------------------------------------------------
(* C1: every draw_arrays call of draw_scene is preceded, within draw_scene, *)
(* by the bind of the position buffer as ARRAY_BUFFER, by                   *)
(* vertex_attrib_pointer, enable_vertex_attrib_array and use_program, and   *)
(* by the uniform_matrix4fv calls for the projection and the model-view     *)
(* matrix; a found uniform location holds its matrix when the draw is made. *)
C1_StepsBeforeDraw ==
  \A r \in Runs : \A i \in DrawCalls(r) :
    LET e == DrawSceneEntry(r)
        D == (e + 1)..(i - 1)
    IN /\ e > 0
       /\ \E j \in D : /\ IsCall(r, j, "bind_buffer")
                       /\ Ev(r, j).args = <<"ARRAY_BUFFER", Some(Ev(r, e).ret.val[1])>>
                       /\ gl.buffers[Ev(r, e).ret.val[1]].data = positions
       /\ \E j \in D : IsCall(r, j, "vertex_attrib_pointer")
       /\ \E j \in D : IsCall(r, j, "enable_vertex_attrib_array")
       /\ \E j \in D : IsCall(r, j, "use_program")
       /\ \E j \in D : /\ IsCall(r, j, "uniform_matrix4fv")
                       /\ Ev(r, j - 1).args[2] = "uProjectionMatrix"
                       /\ Ev(r, j).args[3] = projection_matrix
                       /\ Ev(r, j).args[1].some =>
                            gl.programs[Ev(r, j).args[1].val.program].uniforms["uProjectionMatrix"]
                              = projection_matrix
       /\ \E j \in D : /\ IsCall(r, j, "uniform_matrix4fv")
                       /\ Ev(r, j - 1).args[2] = "uModelViewMatrix"
                       /\ Ev(r, j).args[3] = model_view_matrix
                       /\ Ev(r, j).args[1].some =>
                            gl.programs[Ev(r, j).args[1].val.program].uniforms["uModelViewMatrix"]
                              = model_view_matrix

C1_Witness ==
  \E r \in Runs : /\ DrawCalls(r) # {}
                  /\ \E j \in Events(r) : /\ IsCall(r, j, "uniform_matrix4fv")
                                          /\ Ev(r, j).args[1].some

(* C2: once draw_scene has returned, the run has issued exactly one draw  *)
(* call, draw_arrays(TRIANGLE_STRIP, 0, 4); no run ever has more than one. *)
C2_OneDrawCall ==
  \A r \in Runs :
    /\ Cardinality(DrawCalls(r)) <= 1
    /\ \A i \in DrawCalls(r) : Ev(r, i).args = <<"TRIANGLE_STRIP", 0, 4>>
    /\ (\E i \in Events(r) : IsReturn(r, i, "draw_scene")) => Cardinality(DrawCalls(r)) = 1

C2_Witness ==
  /\ run = MaxRuns
  /\ \A r \in Runs : \E i \in Events(r) : IsReturn(r, i, "draw_scene")
  /\ gl.drawn = MaxRuns

(* C3: load_shader has three outcomes.  When create_shader answers null it *)
(* returns an error at once, with no shader_source or compile_shader call. *)
(* Otherwise it submits the source, compiles and queries COMPILE_STATUS:   *)
(* on true it returns the handle; on false or a non-boolean it returns as  *)
(* error the info log, or "Unknown error creating shader" without a log.   *)
(* A returned handle is a shader the context compiled.                     *)
C3_LoadShaderOutcomes ==
  \A r \in Runs : \A i \in Events(r) :
    IsReturn(r, i, "load_shader") =>
      LET j == LastCall(r, i, "create_shader")
          h == Ev(r, j).ret.val
          kind == Ev(r, i).args[2]
          src == IF kind = "VERTEX_SHADER" THEN "vs_source" ELSE "fs_source"
      IN /\ j > 0
         /\ Ev(r, j).args = <<kind>>
         /\ IF ~Ev(r, j).ret.some
            THEN /\ i = j + 1
                 /\ ~Ev(r, i).ret.ok
            ELSE /\ i >= j + 4
                 /\ Ev(r, j + 1) = Event("shader_source", <<h, src>>, Unit)
                 /\ Ev(r, j + 2) = Event("compile_shader", <<h>>, Unit)
                 /\ IsCall(r, j + 3, "get_shader_parameter")
                 /\ Ev(r, j + 3).args = <<h, "COMPILE_STATUS">>
                 /\ IF Ev(r, j + 3).ret = JsBool(TRUE)
                    THEN /\ i = j + 4
                         /\ Ev(r, i).ret = Ok(h)
                         /\ gl.shaders[h].compiled
                    ELSE /\ i = j + 5
                         /\ IsCall(r, j + 4, "get_shader_info_log")
                         /\ Ev(r, j + 4).args = <<h>>
                         /\ ~Ev(r, i).ret.ok
                         /\ Ev(r, i).ret.err =
                              (IF Ev(r, j + 4).ret.some THEN Ev(r, j + 4).ret.val
                               ELSE "Unknown error creating shader")

C3_Witness ==
  \E r \in Runs : \E i, j, k \in Events(r) :
    /\ IsReturn(r, i, "load_shader") /\ Ev(r, i).ret.ok
    /\ IsReturn(r, j, "load_shader") /\ ~Ev(r, j).ret.ok
    /\ Ev(r, j).ret.err = "Unknown error creating shader"
    /\ IsCall(r, k, "get_shader_parameter") /\ Ev(r, k).ret = JsNull

(* C4: the link step of init_shader_program.  When create_program answers *)
(* null it returns an error at once, with no attach or link.  Otherwise   *)
(* it attaches the vertex and the fragment shader, then links, then       *)
(* queries LINK_STATUS: on true it returns the handle; otherwise it       *)
(* returns as error the program info log, or "Unknown error creating      *)
(* program object" without a log.                                         *)
C4_LinkOutcomes ==
  \A r \in Runs : \A i \in Events(r) :
    (IsReturn(r, i, "init_shader_program") /\ LastCall(r, i, "create_program") > 0) =>
      LET j == LastCall(r, i, "create_program")
          p == Ev(r, j).ret.val
      IN IF ~Ev(r, j).ret.some
         THEN /\ i = j + 1
              /\ ~Ev(r, i).ret.ok
         ELSE /\ i >= j + 5
              /\ IsCall(r, j + 1, "attach_shader")
              /\ IsCall(r, j + 2, "attach_shader")
              /\ Ev(r, j + 1).args[1] = p /\ Ev(r, j + 2).args[1] = p
              /\ {Ev(r, j + 1).args[2], Ev(r, j + 2).args[2]} = CompiledShaders(r)
              /\ Cardinality(CompiledShaders(r)) = 2
              /\ Ev(r, j + 3) = Event("link_program", <<p>>, Unit)
              /\ gl.programs[p].attached = <<Ev(r, j + 1).args[2], Ev(r, j + 2).args[2]>>
              /\ IsCall(r, j + 4, "get_program_parameter")
              /\ Ev(r, j + 4).args = <<p, "LINK_STATUS">>
              /\ IF Ev(r, j + 4).ret = JsBool(TRUE)
                 THEN /\ i = j + 5
                      /\ Ev(r, i).ret = Ok(p)
                 ELSE /\ i = j + 6
                      /\ IsCall(r, j + 5, "get_program_info_log")
                      /\ Ev(r, j + 5).args = <<p>>
                      /\ ~Ev(r, i).ret.ok
                      /\ Ev(r, i).ret.err =
                           (IF Ev(r, j + 5).ret.some THEN Ev(r, j + 5).ret.val
                            ELSE "Unknown error creating program object")

C4_Witness ==
  \E r1, r2 \in Runs : \E i \in Events(r1) : \E j \in Events(r2) :
    /\ IsReturn(r1, i, "init_shader_program") /\ Ev(r1, i).ret.ok
    /\ IsReturn(r2, j, "init_shader_program") /\ ~Ev(r2, j).ret.ok
    /\ IsCall(r2, j - 1, "get_program_info_log")

(* the buffer an init_buffers error message names *)
BufferNamed(msg) ==
  CASE msg = "Error creating position buffer" -> "position"
    [] msg = "Error creating color buffer" -> "color"
    [] OTHER -> "none"

(* the buffer whose create_buffer call is event i of run r: init_buffers *)
(* creates the position buffer first, the color buffer second            *)
BufferCreated(r, i) == IF LastCall(r, i, "create_buffer") = 0 THEN "position" ELSE "color"

(* C5: an init_buffers error names the buffer whose allocation failed *)
C5_ErrorNamesFailedBuffer ==
  \A r \in Runs : \A i \in Events(r) :
    (IsReturn(r, i, "init_buffers") /\ ~Ev(r, i).ret.ok) =>
      /\ IsCall(r, i - 1, "create_buffer")
      /\ ~Ev(r, i - 1).ret.some
      /\ BufferNamed(Ev(r, i).ret.err) = BufferCreated(r, i - 1)

-----------------------------------------------------------------------------
(* the run saw one of its pipeline steps fail *)
StepFailed(r) ==
  \E i \in Events(r) :
    \/ /\ Ev(r, i).op \in {"create_shader", "create_program", "create_buffer"}
       /\ ~Ev(r, i).ret.some
    \/ /\ Ev(r, i).op \in {"get_shader_parameter", "get_program_parameter"}
       /\ Ev(r, i).ret # JsBool(TRUE)

GenericError == Err(JsString("Error"))

(* C6 as stated: every failure start reports is the one generic error *)
C6_AllFailuresGeneric ==
  \A r \in Runs :
    (result[r].returned /\ ~result[r].value.ok) => result[r].value = GenericError

(* C6, amended: a failure of shader compilation, program linking or buffer *)
(* allocation is reported by start with the diagnostic text of the step    *)
(* that failed (the error its function returned), never as the generic     *)
(* "Error".                                                                *)
C6_FailuresCarryStepText ==
  \A r \in Runs :
    (result[r].returned /\ ~result[r].value.ok) =>
      LET last == Ev(r, Len(trace[r]))
      IN /\ last.op = "return"
         /\ last.args[1] \in {"init_shader_program", "init_buffers"}
         /\ ~last.ret.ok
         /\ result[r].value = Err(JsString(last.ret.err))
         /\ result[r].value # GenericError

C6_Witness ==
  \E r1, r2 \in Runs :
    /\ result[r1].returned /\ result[r1].value = Err(JsString(SHADER_LOG))
    /\ result[r2].returned /\ result[r2].value = Err(JsString("Error creating position buffer"))

(* C7: in a run where shader compilation, program linking or buffer      *)
(* allocation failed, draw_arrays is never called, and start, once it    *)
(* has returned, has returned an error.                                  *)
C7_NoDrawAfterFailure ==
  \A r \in Runs :
    StepFailed(r) =>
      /\ DrawCalls(r) = {}
      /\ \A i \in Events(r) : ~IsReturn(r, i, "draw_scene")
      /\ result[r].returned => ~result[r].value.ok
      /\ (r < run \/ pc = "done") => result[r].returned

C7_Witness ==
  \E r \in Runs :
    /\ StepFailed(r) /\ result[r].returned
    /\ \E i \in Events(r) : IsCall(r, i, "buffer_data")

BufferDataCalls(r) == {i \in Events(r) : IsCall(r, i, "buffer_data")}

(* C8: when init_buffers has returned Ok((position, color)), the context  *)
(* holds exactly the 8 position values in the position buffer and the 16  *)
(* color values in the color buffer, both STATIC_DRAW; the run made two    *)
(* buffer_data calls, the positions first, each right after the bind of    *)
(* its own buffer as ARRAY_BUFFER.                                         *)
C8_BufferUploads ==
  \A r \in Runs : \A i \in Events(r) :
    (IsReturn(r, i, "init_buffers") /\ Ev(r, i).ret.ok) =>
      LET pb == Ev(r, i).ret.val[1]
          cb == Ev(r, i).ret.val[2]
      IN /\ pb # cb
         /\ gl.buffers[pb] = [data |-> <<-1, 1, 1, 1, -1, -1, 1, -1>>, usage |-> "STATIC_DRAW"]
         /\ gl.buffers[cb] = [data |-> <<1, 1, 1, 1, 1, 0, 0, 1, 0, 1, 0, 1, 0, 0, 1, 1>>,
                              usage |-> "STATIC_DRAW"]
         /\ Len(gl.buffers[pb].data) = 8 /\ Len(gl.buffers[cb].data) = 16
         /\ BufferDataCalls(r) = {i - 4, i - 1}
         /\ Ev(r, i - 5) = Event("bind_buffer", <<"ARRAY_BUFFER", Some(pb)>>, Unit)
         /\ Ev(r, i - 4).args[2] = gl.buffers[pb].data
         /\ Ev(r, i - 2) = Event("bind_buffer", <<"ARRAY_BUFFER", Some(cb)>>, Unit)
         /\ Ev(r, i - 1).args[2] = gl.buffers[cb].data

C8_Witness ==
  /\ run = MaxRuns
  /\ pc = "ds_clear_color"
  /\ \A r \in Runs : \E i \in Events(r) : IsReturn(r, i, "init_buffers") /\ Ev(r, i).ret.ok

ProgramUses(r) ==
  {i \in Events(r) : Ev(r, i).op \in {"use_program", "get_attrib_location", "get_uniform_location"}}

(* C9: every use_program, get_attrib_location and get_uniform_location call *)
(* names a program for which init_shader_program has already seen          *)
(* LINK_STATUS true, and which the context has linked.                     *)
C9_LinkedBeforeUse ==
  \A r \in Runs : \A i \in ProgramUses(r) :
    LET p == Ev(r, i).args[1]
    IN /\ \E j \in 1..(i - 1) :
            Ev(r, j) = Event("get_program_parameter", <<p, "LINK_STATUS">>, JsBool(TRUE))
       /\ \E j \in 1..(i - 1) :
            Ev(r, j) = Event("return", <<"init_shader_program">>, Ok(p))
       /\ p \in DOMAIN gl.programs
       /\ gl.programs[p].linked

C9_Witness ==
  \E r \in Runs : \E i, j, k \in ProgramUses(r) :
    /\ IsCall(r, i, "use_program")
    /\ IsCall(r, j, "get_attrib_location")
    /\ IsCall(r, k, "get_uniform_location")
    /\ r > 1

-----------------------------------------------------------------------------
(* the calls a run made against the context, without the function returns *)
ContextCalls(r) == SelectSeq(trace[r], LAMBDA e : e.op # "return")

(* what the context answered to a call: for an object or a location, *)
(* whether there is one                                              *)
Answer(e) ==
  IF e.op \in {"create_shader", "create_program", "create_buffer", "get_uniform_location"}
  THEN e.ret.some
  ELSE e.ret

SameAnswers(r1, r2) ==
  LET c1 == ContextCalls(r1)
      c2 == ContextCalls(r2)
  IN /\ Len(c1) = Len(c2)
     /\ \A i \in 1..Len(c1) : c1[i].op = c2[i].op /\ Answer(c1[i]) = Answer(c2[i])

(* the matrices a run passed to uniform_matrix4fv, in order, with the *)
(* uniform each went to                                               *)
Uploads(r) ==
  LET u == SelectSeq(trace[r], LAMBDA e : e.op = "uniform_matrix4fv")
  IN [i \in 1..Len(u) |->
        [name |-> IF u[i].args[1].some THEN u[i].args[1].val.name ELSE "(none)",
         transpose |-> u[i].args[2],
         matrix |-> u[i].args[3]]]

Finished(r) == \E i \in Events(r) : IsReturn(r, i, "draw_scene")

(* C10: two runs of the full pipeline in which the context gave the same *)
(* answers upload the same projection and model-view matrices, whatever  *)
(* state the earlier run left in the context.                            *)
C10_SameUploads ==
  \A r1, r2 \in Runs :
    (Finished(r1) /\ Finished(r2) /\ SameAnswers(r1, r2)) =>
      /\ Uploads(r1) = Uploads(r2)
      /\ Len(Uploads(r1)) = 2
      /\ Len(Uploads(r1)[1].matrix) = 16 /\ Len(Uploads(r1)[2].matrix) = 16

C10_Witness ==
  \E r1, r2 \in Runs :
    /\ r1 < r2
    /\ Finished(r1) /\ Finished(r2) /\ SameAnswers(r1, r2)
    /\ Uploads(r2)[1].name = "uProjectionMatrix"
    /\ Uploads(r2)[2].name = "uModelViewMatrix"

-----------------------------------------------------------------------------
C17_AspectIsTruncatedQuotient ==
  (transforms.step # "aspect" /\ transforms.canvasWidth > 0) =>
    LET w == transforms.canvasWidth
        h == transforms.canvasHeight
        q == transforms.aspect \div Scale
    IN /\ transforms.aspect = q * Scale
       /\ q * w <= h /\ h < (q + 1) * w
       /\ h < w => transforms.aspect = 0
       /\ (h = 600 /\ w = 600) => transforms.aspect = 1 * Scale

C17_Witness ==
  /\ transforms.step = "model_view"
  /\ 0 < transforms.canvasHeight
  /\ transforms.canvasHeight < transforms.canvasWidth
  /\ transforms.aspect = 0

-----------------------------------------------------------------------------
UniformUploads(r) == {i \in Events(r) : IsCall(r, i, "uniform_matrix4fv")}

(* C12: the matrix passed for uModelViewMatrix is the identity with the   *)
(* translation (0, 0, -6, 1) in its last column, as 16 column-major       *)
(* elements (elements 13..16 of the 1-based tuple), and every             *)
(* uniform_matrix4fv call passes transpose = false.                       *)
C12_ModelViewMatrix ==
  \A r \in Runs : \A i \in UniformUploads(r) :
    /\ Ev(r, i).args[2] = FALSE
    /\ IsCall(r, i - 1, "get_uniform_location")
    /\ Ev(r, i).args[1] = Ev(r, i - 1).ret
    /\ Ev(r, i - 1).args[2] = "uModelViewMatrix" =>
         LET m == Ev(r, i).args[3]
         IN /\ Len(m) = 16
            /\ \A k \in 1..12 : m[k] = (IF k \in {1, 6, 11} THEN 1 * Scale ELSE 0)
            /\ <<m[13], m[14], m[15], m[16]>> = <<0, 0, -6 * Scale, 1 * Scale>>
            /\ Ev(r, i).args[1].some =>
                 gl.programs[Ev(r, i).args[1].val.program].uniforms["uModelViewMatrix"] = m

C12_Witness ==
  \E r \in Runs : \E i \in UniformUploads(r) :
    /\ Ev(r, i - 1).args[2] = "uModelViewMatrix"
    /\ Ev(r, i).args[1].some
    /\ pc = "ds_draw"

-----------------------------------------------------------------------------
LoadShaderReturns(r, kind, ok) ==
  {i \in Events(r) : /\ IsReturn(r, i, "load_shader")
                     /\ Ev(r, i).args[2] = kind
                     /\ Ev(r, i).ret.ok = ok}

AttachCalls(r, sh) ==
  {i \in Events(r) : IsCall(r, i, "attach_shader") /\ Ev(r, i).args[2] = sh}

(* C13: init_shader_program compiles the vertex shader first and stops at *)
(* the first failure: the fragment shader is created only after the       *)
(* vertex shader was returned compiled, and create_program,               *)
(* attach_shader and link_program are reached only after both            *)
(* load_shader calls returned a handle of a compiled shader; a failed     *)
(* load_shader is followed by no further context call; each compiled     *)
(* shader is attached at most once, and exactly once when the program is *)
(* linked.                                                                *)
C13_FailFastLink ==
  \A r \in Runs :
    LET vsOk == LoadShaderReturns(r, "VERTEX_SHADER", TRUE)
        fsOk == LoadShaderReturns(r, "FRAGMENT_SHADER", TRUE)
        compiled == CompiledShaders(r)
        creates == {i \in Events(r) : IsCall(r, i, "create_shader")}
    IN /\ \A i \in Events(r) :
            /\ IsCall(r, i, "create_shader") =>
                 IF \A j \in creates : i <= j
                 THEN Ev(r, i).args = <<"VERTEX_SHADER">>
                 ELSE /\ Ev(r, i).args = <<"FRAGMENT_SHADER">>
                      /\ \E j \in vsOk : j < i
            /\ Ev(r, i).op \in {"create_program", "attach_shader", "link_program"} =>
                 /\ \E j \in vsOk : j < i
                 /\ \E j \in fsOk : j < i
                 /\ \A h \in compiled : gl.shaders[h].compiled
            /\ (IsReturn(r, i, "load_shader") /\ ~Ev(r, i).ret.ok) =>
                 /\ IsReturn(r, i + 1, "init_shader_program")
                 /\ Ev(r, i + 1).ret = Ev(r, i).ret
                 /\ Len(trace[r]) = i + 1
            /\ IsCall(r, i, "attach_shader") => Ev(r, i).args[2] \in compiled
            /\ IsCall(r, i, "link_program") =>
                 \A h \in compiled : Cardinality({j \in AttachCalls(r, h) : j < i}) = 1
       /\ \A h \in compiled : Cardinality(AttachCalls(r, h)) <= 1
       /\ Cardinality(vsOk) <= 1
       /\ Cardinality(fsOk) <= 1

C13_Witness ==
  \E r1, r2 \in Runs :
    /\ \E i \in Events(r1) : IsCall(r1, i, "link_program")
    /\ LoadShaderReturns(r2, "VERTEX_SHADER", TRUE) # {}
    /\ LoadShaderReturns(r2, "FRAGMENT_SHADER", FALSE) # {}
    /\ result[r2].returned

-----------------------------------------------------------------------------
(* the buffers the runs' init_buffers calls returned as position buffers, *)
(* and as color buffers                                                   *)
InitBuffersReturns ==
  UNION {{Ev(r, i).ret.val : i \in {j \in Events(r) : IsReturn(r, j, "init_buffers") /\ Ev(r, j).ret.ok}}
         : r \in Runs}
PositionBuffers == {b[1] : b \in InitBuffersReturns}
ColorBuffers == {b[2] : b \in InitBuffersReturns}

(* C14: init_buffers returns with the color buffer bound to ARRAY_BUFFER; *)
(* when draw_scene calls vertex_attrib_pointer the position buffer is     *)
(* bound; the call describes 2 components, FLOAT, not normalized, stride  *)
(* 0, offset 0; no vertex attribute of the context is ever sourced from a *)
(* color buffer.                                                          *)
C14_AttributeFromPositionBuffer ==
  /\ pc = "ds_clear_color" => gl.ARRAY_BUFFER = locals.color_buffer
  /\ pc = "ds_vertex_attrib_pointer" =>
       /\ gl.ARRAY_BUFFER = locals.position_buffer
       /\ gl.ARRAY_BUFFER.val \in PositionBuffers
       /\ gl.ARRAY_BUFFER.val \notin ColorBuffers
       /\ gl.buffers[gl.ARRAY_BUFFER.val].data = <<-1, 1, 1, 1, -1, -1, 1, -1>>
  /\ \A r \in Runs : \A i \in Events(r) :
       IsCall(r, i, "vertex_attrib_pointer") =>
         /\ Ev(r, i).args = <<Ev(r, i).args[1], 2, "FLOAT", FALSE, 0, 0>>
         /\ Ev(r, i - 2) = Event("bind_buffer",
                                 <<"ARRAY_BUFFER", Some(Ev(r, DrawSceneEntry(r)).ret.val[1])>>, Unit)
         /\ (r = run /\ Ev(r, i - 1).ret = 0) =>
              gl.attribs[0] = [enabled |-> gl.attribs[0].enabled,
                               buffer |-> Some(Ev(r, DrawSceneEntry(r)).ret.val[1]),
                               size |-> 2, type |-> "FLOAT", normalized |-> FALSE,
                               stride |-> 0, offset |-> 0]
  /\ \A a \in DOMAIN gl.attribs :
       gl.attribs[a].buffer.some => gl.attribs[a].buffer.val \in PositionBuffers \ ColorBuffers

C14_Witness ==
  /\ pc = "ds_enable_vertex_attrib_array"
  /\ gl.attribs[0].buffer = locals.position_buffer
  /\ locals.position_buffer.some
  /\ run > 1

-----------------------------------------------------------------------------
(* the run has returned Ok after exactly one draw call *)
DrewAndSucceeded(r) ==
  /\ result[r] = Returned(Ok(Unit))
  /\ Cardinality(DrawCalls(r)) = 1
  /\ Ev(r, Len(trace[r])) = Event("return", <<"draw_scene">>, Ok(Unit))

UniformLookups(r, found) ==
  {i \in Events(r) : IsCall(r, i, "get_uniform_location") /\ Ev(r, i).ret.some = found}

C15_State ==
  \A r \in Runs : \A i \in UniformLookups(r, FALSE) :
    LET p == Ev(r, i).args[1]
        name == Ev(r, i).args[2]
    IN /\ name \notin DOMAIN gl.programs[p].uniforms
       /\ i < Len(trace[r]) =>
            /\ IsCall(r, i + 1, "uniform_matrix4fv")
            /\ Ev(r, i + 1).args[1] = None
       /\ result[r].returned =>
            /\ DrewAndSucceeded(r)
            /\ Cardinality(UniformUploads(r)) = 2
            /\ \A j \in UniformLookups(r, TRUE) :
                 gl.programs[p].uniforms[Ev(r, j).args[2]] = Ev(r, j + 1).args[3]

C15_Step ==
  /\ (pc = "ds_projection_upload" /\ ~locals.program_projection_matrix.some) =>
       (gl' = gl /\ pc' = "ds_model_view_location")
  /\ (pc = "ds_model_view_upload" /\ ~locals.program_model_view_matrix.some) =>
       (gl' = gl /\ pc' = "ds_draw")

(* C15: a uniform that is not found is tolerated: the uniform_matrix4fv *)
(* call made with the null location changes nothing in the context, the *)
(* other uniform still receives its matrix, the draw call is issued and *)
(* draw_scene returns Ok.                                               *)
C15_UniformNotFoundTolerated == []C15_State /\ [][C15_Step]_vars

C15_Witness ==
  \E r \in Runs :
    /\ result[r].returned
    /\ Cardinality(UniformLookups(r, FALSE)) = 1
    /\ Cardinality(UniformLookups(r, TRUE)) = 1

-----------------------------------------------------------------------------
Sentinel == <<65535, 65535>>

AttribLookups(r, location) ==
  {i \in Events(r) : IsCall(r, i, "get_attrib_location") /\ Ev(r, i).ret = location}

C16_State ==
  /\ \A r \in Runs : \A i \in AttribLookups(r, -1) :
       /\ i + 1 \in Events(r) =>
            /\ IsCall(r, i + 1, "vertex_attrib_pointer")
            /\ Ev(r, i + 1).args[1] = Sentinel
       /\ i + 2 \in Events(r) =>
            Ev(r, i + 2) = Event("enable_vertex_attrib_array", <<Sentinel>>, Unit)
       /\ result[r].returned => DrewAndSucceeded(r)
  /\ (\A r \in Runs : AttribLookups(r, 0) = {}) =>
       \A a \in DOMAIN gl.attribs : gl.attribs[a] = NoAttrib

C16_Step ==
  (/\ pc \in {"ds_vertex_attrib_pointer", "ds_enable_vertex_attrib_array"}
   /\ locals.vertex_position = Sentinel) => gl' = gl

(* C16: when aVertexPosition is not found the lookup answers -1, which is *)
(* passed on as the u32 value 2^32 - 1 to vertex_attrib_pointer and to    *)
(* enable_vertex_attrib_array; both leave the context as it was, no       *)
(* attribute array is enabled, the draw call is issued and draw_scene     *)
(* returns Ok.                                                            *)
C16_AttributeNotFoundTolerated == []C16_State /\ [][C16_Step]_vars

C16_Witness ==
  /\ pc = "done"
  /\ AttribLookups(run, -1) # {}
  /\ DrewAndSucceeded(run)
  /\ \A a \in DOMAIN gl.attribs : ~gl.attribs[a].enabled

-----------------------------------------------------------------------------
(* C18: draw_scene sets the clear color (0, 0, 0, 1), the clear depth 1, *)
(* enables the depth test and sets its function to LEQUAL, then clears   *)
(* the color buffer and the depth buffer, in this order and before the   *)
(* draw call; the context holds these settings and both cleared buffers  *)
(* when the draw call is made, and no clear follows the draw call.       *)
C18_ClearBeforeDraw ==
  /\ \A r \in Runs : \A i \in DrawCalls(r) :
       LET e == DrawSceneEntry(r)
       IN /\ e > 0 /\ e + 6 < i
          /\ Ev(r, e + 1) = Event("clear_color", <<0, 0, 0, 1>>, Unit)
          /\ Ev(r, e + 2) = Event("clear_depth", <<1>>, Unit)
          /\ Ev(r, e + 3) = Event("enable", <<"DEPTH_TEST">>, Unit)
          /\ Ev(r, e + 4) = Event("depth_func", <<"LEQUAL">>, Unit)
          /\ Ev(r, e + 5) = Event("clear", <<"COLOR_BUFFER_BIT">>, Unit)
          /\ Ev(r, e + 6) = Event("clear", <<"DEPTH_BUFFER_BIT">>, Unit)
          /\ \A j \in Events(r) : (j > e + 6) => ~IsCall(r, j, "clear")
  /\ pc \in {"ds_clear_c", "ds_clear_d", "ds_draw"} =>
       /\ gl.COLOR_CLEAR_VALUE = <<0, 0, 0, 1>>
       /\ gl.DEPTH_CLEAR_VALUE = 1
       /\ gl.DEPTH_TEST
       /\ gl.DEPTH_FUNC = "LEQUAL"
  /\ pc = "ds_draw" => gl.cleared = {"COLOR_BUFFER_BIT", "DEPTH_BUFFER_BIT"}

C18_Witness ==
  /\ pc = "done"
  /\ DrawCalls(run) # {}
  /\ gl.DEPTH_FUNC = "LEQUAL"
  /\ gl.cleared = {}

-----------------------------------------------------------------------------
(* C19: draw_scene, once entered, never returns an error: its return is  *)
(* Ok after the draw call, so an error of start always comes from a      *)
(* failed shader compilation, program link or buffer allocation and is   *)
(* never the generic "Error" of lines 57-58.                             *)
C19_DrawSceneNeverFails ==
  \A r \in Runs :
    /\ \A i \in Events(r) :
         IsReturn(r, i, "draw_scene") =>
           /\ Ev(r, i).ret = Ok(Unit)
           /\ IsCall(r, i - 1, "draw_arrays")
    /\ result[r].returned =>
         /\ result[r].value # GenericError
         /\ result[r].value.ok <=> ~StepFailed(r)
         /\ DrawSceneEntry(r) > 0 => DrewAndSucceeded(r)
         /\ ~result[r].value.ok =>
              LET last == Ev(r, Len(trace[r]))
              IN last.op = "return" /\ last.args[1] \in {"init_shader_program", "init_buffers"}

C19_Witness ==
  /\ pc = "done"
  /\ DrewAndSucceeded(run)
  /\ AttribLookups(run, -1) # {}
  /\ Cardinality(UniformLookups(run, FALSE)) = 2

=============================================================================
